---- MODULE Spec2Model ----
(***************************************************************************)
(* shiromana-cli: the `add` and `info` commands of src/src/command.rs as a *)
(* state machine over the library engine (media store, series store) and   *)
(* the log of engine calls each invocation makes.                          *)
(*                                                                         *)
(* Strings are sequences of one-character strings.  An Option<T> is a      *)
(* sequence of length at most one: None is << >>, Some(x) is <<x>>.        *)
(***************************************************************************)
EXTENDS Integers, Sequences, FiniteSets, TLC

VARIABLES
    pc,        \* position of the running command ("idle" between invocations)
    outcome,   \* how the invocation ended: "none" (running), "Ok", "Err:<cause>", "Panic"
    opt,       \* the parsed command line (struct Add)
    files,     \* do_add: the resolved file list
    ids,       \* do_add: Vec<Option<u64>>, one entry per processed file
    target,    \* do_add: the resolved series, Option<Uuid>
    bindIdx,   \* do_add: index i of the binding loop (0-based)
    calls,     \* engine calls of the current invocation, in call order
    query,     \* do_info: opt.media, the query string
    found,     \* do_info: the media returned by get_media (ids of the records)
    shown,     \* do_info: the query string printed with the miss message, Option
    bound,     \* do_add: the <<uuid, id>> bindings the engine accepted, in order
    media,     \* engine: media records, media[id] = [hash, filename]
    series     \* engine: series names, series[uuid] = name

vars == <<pc, outcome, opt, files, ids, target, bindIdx, calls, query, found, shown, bound,
          media, series>>

(***************************************************************************)
(* Bounds                                                                  *)
(***************************************************************************)
MaxBatch == 2       \* longest file list and longest manifest (in lines)
MaxQueryLen == 3    \* longest query string of `info`
MaxSeries == 2      \* most series the engine holds

(***************************************************************************)
(* Option and sequence helpers                                             *)
(***************************************************************************)
None == << >>
Some(x) == <<x>>
IsSome(o) == Len(o) = 1
IsNone(o) == Len(o) = 0
Unwrap(o) == o[1]

SeqsUpTo(S, n) == UNION {[1..m -> S] : m \in 0..n}

(***************************************************************************)
(* The file system the invocation sees                                     *)
(***************************************************************************)
P1 == <<"/", "1">>
P2 == <<"/", "d", "/", "e", "/", "f", "/", "1">>
P3 == <<"/", "d", "/", "e", "/", "a", "0">>
PMissing == <<"/", "d", "/", "e", "/", "n", "o">>

FileScheme == <<"f", "i", "l", "e", ":", "/", "/">>
SchemeLen == 7

ExistingFiles == {P1, P2, P3}
Paths == ExistingFiles \cup {PMissing}
ManifestLines == {<< >>, P1, P3, FileScheme \o P2, PMissing}

\* Path::is_file / is_existed_as_file
IsFile(p) == p \in ExistingFiles

\* content hash of a file, as the engine computes it (hex text)
H0 == <<"a", "0">>
H1 == <<"a", "1">>
FileHash(p) == IF p = P2 THEN H1 ELSE H0

RECURSIVE FileName(_)
\* Path::file_name: the text after the last separator
FileName(p) ==
    IF p = << >> THEN << >>
    ELSE IF \E j \in 1..Len(p) : p[j] = "/"
         THEN FileName(Tail(p))
         ELSE p

(***************************************************************************)
(* parse_input_file (command.rs 294-313)                                   *)
(***************************************************************************)
RECURSIVE PercentEncode(_)
\* Url::path keeps the path percent-encoded: a space becomes %20
PercentEncode(s) ==
    IF s = << >> THEN << >>
    ELSE IF Head(s) = " " THEN <<"%", "2", "0">> \o PercentEncode(Tail(s))
    ELSE <<Head(s)>> \o PercentEncode(Tail(s))

RECURSIVE FromFirstSlash(_)
FromFirstSlash(s) ==
    IF s = << >> THEN <<"/">>
    ELSE IF Head(s) = "/" THEN s
    ELSE FromFirstSlash(Tail(s))

\* the authority of the URI: the text between the scheme and the first "/"
UrlHost(v) ==
    LET rest == SubSeq(v, SchemeLen + 1, Len(v))
        cut == FromFirstSlash(rest)
    IN  IF \E j \in 1..Len(rest) : rest[j] = "/"
        THEN SubSeq(rest, 1, Len(rest) - Len(cut))
        ELSE rest

\* Url::parse(v).unwrap().path() of a line that starts with file://
UrlPath(v) ==
    LET rest == SubSeq(v, SchemeLen + 1, Len(v))
    IN  IF \E j \in 1..Len(UrlHost(v)) : UrlHost(v)[j] = " "
        THEN [panic |-> TRUE, path |-> << >>]
        ELSE [panic |-> FALSE, path |-> PercentEncode(FromFirstSlash(rest))]

\* the closure of lines 297-303: &v[0..7] panics on a line shorter than 7 bytes
LineToPath(v) ==
    IF Len(v) < SchemeLen THEN [panic |-> TRUE, path |-> << >>]
    ELSE IF SubSeq(v, 1, SchemeLen) = FileScheme THEN UrlPath(v)
    ELSE [panic |-> FALSE, path |-> v]

\* mutant of NotExists: only the first path is checked
NotExistsFirstOnly(ps) ==
    IF ps # << >> /\ ~IsFile(Head(ps)) THEN <<Head(ps)>> ELSE << >>

RECURSIVE NotExists(_)
\* lines 304-307: the paths that are not regular files, in order
NotExists(ps) ==
    IF ps = << >> THEN << >>
    ELSE IF IsFile(Head(ps)) THEN NotExists(Tail(ps))
    ELSE <<Head(ps)>> \o NotExists(Tail(ps))

\* parse_input_file on a manifest that reads as the lines ls
ParseInputFile(ls) ==
    LET conv == [j \in 1..Len(ls) |-> LineToPath(ls[j])]
        paths == [j \in 1..Len(ls) |-> conv[j].path]
    IN  IF \E j \in 1..Len(ls) : conv[j].panic
        THEN [result |-> "Panic", files |-> << >>]
        ELSE IF NotExists(paths) # << >>
        THEN [result |-> "Err:missing", files |-> << >>]
        ELSE [result |-> "Ok", files |-> paths]

(***************************************************************************)
(* The library engine (shiromana_rs::library::Library), as do_add and      *)
(* do_info use it.  Every call that returns a Result may fail.             *)
(***************************************************************************)
HashSize == 1       \* lib.get_hash_size(): bytes of a content hash

MediaIds == 1..Len(media)
Record(id) == [id |-> id, hash |-> media[id].hash, filename |-> media[id].filename]

\* all ids, ascending: the engine's native return order
AllIds == [id \in 1..Len(media) |-> id]

\* lib.add_media(path, ..): Ok(id), Err(AlreadyExists(hash)) or another error
AddMediaResults(p) ==
    {[kind |-> "Other", id |-> 0, hash |-> << >>]} \cup
    IF \E id \in MediaIds : media[id].hash = FileHash(p)
    THEN {[kind |-> "AlreadyExists", id |-> 0, hash |-> FileHash(p)]}
    ELSE {[kind |-> "Ok", id |-> Len(media) + 1, hash |-> FileHash(p)]}

\* lib.query_media("hash = '<h>'"): Err, or Ok(ids of the matching media)
QueryMediaResults(h) ==
    {[ok |-> FALSE, ids |-> << >>],
     [ok |-> TRUE, ids |-> SelectSeq(AllIds, LAMBDA id : media[id].hash = h)]}

\* lib.get_media_by_filename(name): Err, or Ok(ids of the matching media)
GetMediaByFilenameResults(n) ==
    {[ok |-> FALSE, ids |-> << >>],
     [ok |-> TRUE, ids |-> SelectSeq(AllIds, LAMBDA id : media[id].filename = n)]}

\* lib.get_media(id).is_ok()
GetMediaOk(id) == id \in MediaIds

\* lib.get_series_by_name(name).is_ok()
GetSeriesByNameOk(n) == \E u \in 1..Len(series) : series[u] = n

\* lib.create_series(name, None): Ok(uuid) or Err
CreateSeriesResults ==
    {[ok |-> FALSE, uuid |-> 0]} \cup
    IF Len(series) < MaxSeries THEN {[ok |-> TRUE, uuid |-> Len(series) + 1]} ELSE {}

\* lib.add_to_series(id, uuid, ..): Ok or Err; Err when the series is unknown
AddToSeriesResults(uuid) ==
    {FALSE} \cup IF uuid \in 1..Len(series) THEN {TRUE} ELSE {}

\* a logged engine call: its arguments, whether it returned Ok, and what it returned
Call(op, args, ok, ret) == [op |-> op, args |-> args, ok |-> ok, ret |-> ret]

(***************************************************************************)
(* do_add (command.rs 315-430): the decisions                              *)
(***************************************************************************)
SeriesNames == {"s", "t"}     \* the names the user types at the prompt
NewSeriesNames == {"s"}       \* the names given with --new-series
Uuids == {1}

\* struct Add as clap can hand it over: FILE and INPUT exclude each other and one
\* is required (group "input"); --series and --new-series exclude each other
\* (group "series_g"), main.rs 194-215
AddInputs ==
    {[file |-> f, input |-> None] : f \in SeqsUpTo(Paths, MaxBatch) \ {<< >>}} \cup
    {[file |-> << >>, input |-> Some(m)] : m \in SeqsUpTo(ManifestLines, MaxBatch)}
AddIntents ==
    {[series |-> None, new_series |-> None]} \cup
    {[series |-> Some(u), new_series |-> None] : u \in Uuids} \cup
    {[series |-> None, new_series |-> Some(n)] : n \in NewSeriesNames}
AddTexts ==
    {[title |-> None, comment |-> None], [title |-> Some("T"), comment |-> Some("C")]}
MkAdd(inp, sorted, intent, text) ==
    [file |-> inp.file, input |-> inp.input, sorted |-> sorted,
     series |-> intent.series, new_series |-> intent.new_series,
     title |-> text.title, comment |-> text.comment]

NoOpt == [file |-> << >>, input |-> None, sorted |-> FALSE, series |-> None,
          new_series |-> None, title |-> None, comment |-> None]

\* the validator is_existed_as_file on every FILE argument (main.rs 205, 266-277)
ClapAccepts(o) == \A j \in 1..Len(o.file) : IsFile(o.file[j])

\* lines 321-325: title and comment go with a batch of exactly one file
\* mutant of TitleFor: the title is handed over whatever the size of the batch
TitleForAlways(o, fs) == o.title
TitleFor(o, fs) == IF Len(fs) = 1 THEN o.title ELSE None
CommentFor(o, fs) == IF Len(fs) = 1 THEN o.comment ELSE None

\* mutant of RecoverId: the emptiness test is off by one
RecoverIdNeedsTwo(q) == IF q.ok /\ Len(q.ids) > 1 THEN Some(q.ids[1]) ELSE None

\* lines 339-353: query_media(..).unwrap_or_else(|_| vec![]).first()
RecoverId(q) == IF q.ok /\ q.ids # << >> THEN Some(q.ids[1]) ELSE None

\* mutant of IngestDone: the map stops at the first failed file
IngestStopsAtFailure(fs, idv) ==
    Len(idv) = Len(fs) \/ (idv # << >> /\ IsNone(idv[Len(idv)]))

\* mutant of IngestDone: the series block starts after the first outcome
IngestDoneAfterFirst(fs, idv) == idv # << >> \/ fs = << >>

\* lines 327-381: the map over files has produced every outcome
IngestDone(fs, idv) == Len(idv) = Len(fs)

\* mutant of SortedAbort: only the first outcome is looked at
SortedAbortFirstOnly(o, idv) == o.sorted /\ idv # << >> /\ IsNone(idv[1])

\* line 382: opt.sorted && ids.iter().any(|v| v.is_none())
SortedAbort(o, idv) == o.sorted /\ \E j \in 1..Len(idv) : IsNone(idv[j])

\* mutant of Retained: the retained identifiers come out in reverse order
RetainedReversed(idv) ==
    LET r == SelectSeq(idv, IsSome)
    IN  [j \in 1..Len(r) |-> r[Len(r) + 1 - j]]

\* line 418: ids.retain(|c| c.is_some())
Retained(idv) == SelectSeq(idv, IsSome)

\* line 421: the arguments of the i-th add_to_series call (i from 0)
BindArgs(o, idv, i, uuid) == <<Unwrap(Retained(idv)[i + 1]), uuid, None, ~o.sorted>>

\* mutant of BindStops: the result of add_to_series is dropped
BindNeverStops(ok) == FALSE

\* line 421: the `?` after add_to_series returns its error
BindStops(ok) == ~ok

\* mutant of PromptRejects: the validator lets every answer through
PromptAcceptsAll(a) == FALSE

\* lines 398-403: the validator of the prompt rejects a name that is in use
PromptRejects(a) == GetSeriesByNameOk(a)

\* line 391: the name given with --new-series is in use
NameCollides(n) == GetSeriesByNameOk(n)

MaxPrompts == 2     \* most answers the user gives to the "Series name" prompt
PromptsAsked == Len(SelectSeq(calls, LAMBDA c : c.op = "prompt"))

(***************************************************************************)
(* Initial state: a freshly created, empty library; no command running     *)
(***************************************************************************)
Init ==
    /\ pc = "idle"
    /\ outcome = "none"
    /\ opt = NoOpt
    /\ files = << >>
    /\ ids = << >>
    /\ target = None
    /\ bindIdx = 0
    /\ calls = << >>
    /\ query = None
    /\ found = << >>
    /\ shown = None
    /\ bound = << >>
    /\ media = << >>
    /\ series = << >>

Finish(res) == pc' = "done" /\ outcome' = res

\* main (main.rs 246-252): clap parses `add ...`; a rejected argument ends the process
StartAdd ==
    /\ pc = "idle"
    /\ \E inp \in AddInputs, sorted \in BOOLEAN, intent \in AddIntents, text \in AddTexts :
        LET o == MkAdd(inp, sorted, intent, text)
        IN  /\ opt' = o
            /\ IF ClapAccepts(o)
               THEN pc' = "add_resolve" /\ outcome' = "none"
               ELSE Finish("Err:clap")
    /\ UNCHANGED <<files, ids, target, bindIdx, calls, query, found, media, series>>
    /\ UNCHANGED <<shown, bound>>

\* the process exits; the library stays on disk for the next invocation
Exit ==
    /\ pc = "done"
    /\ pc' = "idle" /\ outcome' = "none" /\ opt' = NoOpt
    /\ files' = << >> /\ ids' = << >> /\ target' = None /\ bindIdx' = 0
    /\ calls' = << >> /\ query' = None /\ found' = << >>
    /\ shown' = None /\ bound' = << >>
    /\ UNCHANGED <<media, series>>

\* lines 316-320: the file list, from the manifest or from the arguments
AddResolve ==
    /\ pc = "add_resolve"
    /\ IF IsSome(opt.input)
       THEN \E readOk \in BOOLEAN :
              LET r == ParseInputFile(Unwrap(opt.input))
              IN  IF ~readOk THEN Finish("Err:read") /\ files' = << >>
                  ELSE IF r.result = "Ok"
                  THEN pc' = "add_ingest" /\ outcome' = outcome /\ files' = r.files
                  ELSE Finish(r.result) /\ files' = << >>
       ELSE pc' = "add_ingest" /\ outcome' = outcome /\ files' = opt.file
    /\ UNCHANGED <<opt, ids, target, bindIdx, calls, query, found, media, series>>
    /\ UNCHANGED <<shown, bound>>

\* lines 327-381: one file of the batch through add_one_media and the recovery
AddIngest ==
    /\ pc = "add_ingest"
    /\ ~IngestDone(files, ids)
    /\ LET f == files[Len(ids) + 1]
           add(r) == Call("add_media", <<f, TitleFor(opt, files), CommentFor(opt, files)>>,
                          r.kind = "Ok", r)
       IN  \E r \in AddMediaResults(f) :
             \/ /\ r.kind = "Ok"
                /\ media' = Append(media, [hash |-> r.hash, filename |-> FileName(f)])
                /\ ids' = Append(ids, Some(r.id))
                /\ calls' = Append(calls, add(r))
             \/ /\ r.kind = "AlreadyExists"
                /\ \E q \in QueryMediaResults(r.hash) :
                     /\ ids' = Append(ids, RecoverId(q))
                     /\ calls' = calls \o <<add(r), Call("query_media", <<r.hash>>, q.ok, q.ids)>>
                /\ media' = media
             \/ /\ r.kind = "Other"
                /\ ids' = Append(ids, None)
                /\ calls' = Append(calls, add(r))
                /\ media' = media
    /\ UNCHANGED <<pc, outcome, opt, files, target, bindIdx, query, found, series>>
    /\ UNCHANGED <<shown, bound>>

\* lines 382-385: a sorted batch with a failed file returns before any series call
AddSortedCheck ==
    /\ pc = "add_ingest"
    /\ IngestDone(files, ids)
    /\ IF SortedAbort(opt, ids) THEN Finish("Ok") ELSE pc' = "add_series" /\ outcome' = outcome
    /\ UNCHANGED <<opt, files, ids, target, bindIdx, calls, query, found, media, series>>
    /\ UNCHANGED <<shown, bound>>

\* create_series(name, None)? of lines 390-411
CreateSeries(name, log) ==
    \E c \in CreateSeriesResults :
        /\ calls' = log \o <<Call("create_series", <<name>>, c.ok, c.uuid)>>
        /\ IF c.ok
           THEN series' = Append(series, name) /\ target' = Some(c.uuid)
                /\ pc' = "add_bind" /\ outcome' = outcome
           ELSE series' = series /\ target' = None /\ Finish("Err:create_series")

\* lines 387-414: the series the batch is bound to
AddResolveSeries ==
    /\ pc = "add_series"
    /\ IF IsSome(opt.series)
       THEN /\ target' = opt.series
            /\ pc' = "add_bind" /\ outcome' = outcome
            /\ UNCHANGED <<calls, series>>
       ELSE IF IsSome(opt.new_series)
       THEN LET name == Unwrap(opt.new_series)
                log == Append(calls, Call("get_series_by_name", <<name>>, GetSeriesByNameOk(name), << >>))
            IN  IF NameCollides(name)
                THEN /\ calls' = log
                     /\ pc' = "add_prompt" /\ outcome' = outcome
                     /\ UNCHANGED <<target, series>>
                ELSE CreateSeries(name, log)
       ELSE /\ target' = None
            /\ pc' = "add_bind" /\ outcome' = outcome
            /\ UNCHANGED <<calls, series>>
    /\ UNCHANGED <<opt, files, ids, bindIdx, query, found, media>>
    /\ UNCHANGED <<shown, bound>>

\* lines 396-405: one answer to the prompt; the validator rejects a used name,
\* interact_text()? fails on an I/O error
AddPrompt ==
    /\ pc = "add_prompt"
    /\ \/ /\ Finish("Err:prompt")
          /\ UNCHANGED <<calls, target, series>>
       \/ /\ PromptsAsked < MaxPrompts
          /\ \E a \in SeriesNames :
               LET log == calls \o <<Call("prompt", <<a>>, TRUE, << >>),
                                     Call("get_series_by_name", <<a>>, GetSeriesByNameOk(a), << >>)>>
               IN  IF PromptRejects(a)
                   THEN /\ calls' = log
                        /\ UNCHANGED <<pc, outcome, target, series>>
                   ELSE CreateSeries(a, log)
    /\ UNCHANGED <<opt, files, ids, bindIdx, query, found, media>>
    /\ UNCHANGED <<shown, bound>>

\* lines 416-422: one add_to_series call of the binding loop
AddBind ==
    /\ pc = "add_bind"
    /\ IsSome(target)
    /\ bindIdx < Len(Retained(ids))
    /\ \E ok \in AddToSeriesResults(Unwrap(target)) :
         /\ calls' = Append(calls, Call("add_to_series",
                                        BindArgs(opt, ids, bindIdx, Unwrap(target)), ok, << >>))
         /\ bound' = IF ok THEN Append(bound, <<Unwrap(target), Retained(ids)[bindIdx + 1][1]>>)
                          ELSE bound
         /\ IF BindStops(ok)
            THEN bindIdx' = bindIdx /\ Finish("Err:add_to_series")
            ELSE bindIdx' = bindIdx + 1 /\ UNCHANGED <<pc, outcome>>
    /\ UNCHANGED <<opt, files, ids, target, query, found, media, series>>
    /\ UNCHANGED <<shown>>

\* lines 423-429: the loop is over, or there is no series
AddFinish ==
    /\ pc = "add_bind"
    /\ IsNone(target) \/ bindIdx = Len(Retained(ids))
    /\ Finish("Ok")
    /\ UNCHANGED <<opt, files, ids, target, bindIdx, calls, query, found, media, series>>
    /\ UNCHANGED <<shown, bound>>

(***************************************************************************)
(* do_info (command.rs 139-246): the get_media closure                     *)
(***************************************************************************)
Chars == {" ", "0", "1", "a"}
Queries == SeqsUpTo(Chars, MaxQueryLen)

RECURSIVE TrimStart(_)
TrimStart(s) == IF s # << >> /\ Head(s) = " " THEN TrimStart(Tail(s)) ELSE s

RECURSIVE TrimEnd(_)
TrimEnd(s) ==
    IF s # << >> /\ s[Len(s)] = " " THEN TrimEnd(SubSeq(s, 1, Len(s) - 1)) ELSE s

\* str::trim
Trim(s) == TrimEnd(TrimStart(s))

IsDigit(c) == c \in {"0", "1", "2", "3", "4", "5", "6", "7", "8", "9"}
DigitVal(c) ==
    CASE c = "0" -> 0 [] c = "1" -> 1 [] c = "2" -> 2 [] c = "3" -> 3 [] c = "4" -> 4
      [] c = "5" -> 5 [] c = "6" -> 6 [] c = "7" -> 7 [] c = "8" -> 8 [] c = "9" -> 9

RECURSIVE DecimalValue(_, _)
DecimalValue(s, acc) ==
    IF s = << >> THEN acc ELSE DecimalValue(Tail(s), 10 * acc + DigitVal(Head(s)))

\* <u64 as FromStr>::from_str: an optional "+", then one or more digits, nothing else
ParseU64(s) ==
    LET digits == IF s # << >> /\ Head(s) = "+" THEN Tail(s) ELSE s
    IN  IF digits # << >> /\ \A j \in 1..Len(digits) : IsDigit(digits[j])
        THEN Some(DecimalValue(digits, 0))
        ELSE None

\* line 198: the text handed to parse() in the identifier attempt
IdText(q) == q

\* mutant of IdHit: the identifier attempt never returns early
IdHitNever(v) == FALSE

\* lines 199-203: the identifier attempt returns when parse and get_media both succeed
IdHit(v) == IsSome(v) /\ GetMediaOk(Unwrap(v))

\* line 208: the hash attempt is made for a trimmed query of hex-hash length
HashAttempted(q) == Len(Trim(q)) = HashSize * 2

\* lines 202, 213, 222, 224: the closure hands back the query string it was given
ReportedQuery(q) == q

\* main (main.rs 246-251): clap parses `info [media]`
StartInfo ==
    /\ pc = "idle"
    /\ \E m \in {None} \cup {Some(q) : q \in Queries} :
        /\ query' = m
        /\ pc' = IF IsSome(m) THEN "info_id" ELSE "info_print"
    /\ UNCHANGED <<outcome, opt, files, ids, target, bindIdx, calls, found, media, series>>
    /\ UNCHANGED <<shown, bound>>

\* lines 197-206: first try ID
InfoIdAttempt ==
    /\ pc = "info_id"
    /\ LET v == ParseU64(IdText(Unwrap(query)))
       IN  /\ calls' = IF IsSome(v)
                       THEN Append(calls, Call("get_media", v, GetMediaOk(Unwrap(v)), << >>))
                       ELSE calls
           /\ IF IdHit(v)
              THEN found' = <<Record(Unwrap(v))>> /\ pc' = "info_print"
              ELSE found' = found /\ pc' = "info_hash"
    /\ UNCHANGED <<outcome, opt, files, ids, target, bindIdx, query, media, series>>
    /\ UNCHANGED <<shown, bound>>

\* lines 207-216: then try Hash; first().unwrap() panics on an empty Ok
InfoHashAttempt ==
    /\ pc = "info_hash"
    /\ IF HashAttempted(Unwrap(query))
       THEN \E r \in QueryMediaResults(Trim(Unwrap(query))) :
              /\ calls' = Append(calls, Call("query_media", <<Trim(Unwrap(query))>>, r.ok, r.ids))
              /\ IF ~r.ok
                 THEN pc' = "info_file" /\ UNCHANGED <<found, outcome>>
                 ELSE IF r.ids = << >>
                 THEN Finish("Panic") /\ found' = found
                 ELSE /\ found' = <<Record(r.ids[1])>>
                      /\ pc' = "info_print" /\ outcome' = outcome
       ELSE pc' = "info_file" /\ UNCHANGED <<calls, found, outcome>>
    /\ UNCHANGED <<opt, files, ids, target, bindIdx, query, media, series>>
    /\ UNCHANGED <<shown, bound>>

\* lines 217-225: last try file name
InfoFilenameAttempt ==
    /\ pc = "info_file"
    /\ \E r \in GetMediaByFilenameResults(Trim(Unwrap(query))) :
         /\ calls' = Append(calls, Call("get_media_by_filename", <<Trim(Unwrap(query))>>, r.ok, r.ids))
         /\ found' = IF r.ok THEN [j \in 1..Len(r.ids) |-> Record(r.ids[j])] ELSE << >>
    /\ pc' = "info_print"
    /\ UNCHANGED <<outcome, opt, files, ids, target, bindIdx, query, media, series>>
    /\ UNCHANGED <<shown, bound>>

\* lines 228-245: print the records, the miss, or the library summary; Ok(())
InfoPrint ==
    /\ pc = "info_print"
    /\ shown' = IF IsSome(query) /\ found = << >> THEN Some(ReportedQuery(Unwrap(query))) ELSE None
    /\ Finish("Ok")
    /\ UNCHANGED <<opt, files, ids, target, bindIdx, calls, query, found, media, series>>
    /\ UNCHANGED <<bound>>

Next ==
    \/ StartAdd
    \/ AddResolve
    \/ AddIngest
    \/ AddSortedCheck
    \/ AddResolveSeries
    \/ AddPrompt
    \/ AddBind
    \/ AddFinish
    \/ StartInfo
    \/ InfoIdAttempt
    \/ InfoHashAttempt
    \/ InfoFilenameAttempt
    \/ InfoPrint
    \/ Exit

Spec == Init /\ [][Next]_vars

(***************************************************************************)
(* Properties                                                              *)
(***************************************************************************)
CallsOf(op) == SelectSeq(calls, LAMBDA c : c.op = op)
AddRunning == opt # NoOpt
HasIntent == IsSome(opt.series) \/ IsSome(opt.new_series)
AnyFailed == \E j \in 1..Len(ids) : IsNone(ids[j])

RECURSIVE SomeValues(_)
\* the identifiers of the non-Failed outcomes, in input order
SomeValues(idv) ==
    IF idv = << >> THEN << >>
    ELSE IF Len(Head(idv)) = 1 THEN <<Head(idv)[1]>> \o SomeValues(Tail(idv))
    ELSE SomeValues(Tail(idv))

\* the identifiers handed to add_to_series, in call order
BoundIds == [j \in 1..Len(CallsOf("add_to_series")) |-> CallsOf("add_to_series")[j].args[1]]

IsPrefix(a, b) == Len(a) <= Len(b) /\ a = SubSeq(b, 1, Len(a))

\* C1: in do_add, once the sorted flag is set and some file's outcome is Failed, the
\* invocation makes no add_to_series call and no create_series call, whatever the
\* series intent and the batch.
C1_SortedFailedNoSeriesCalls ==
    (AddRunning /\ opt.sorted /\ AnyFailed)
        => CallsOf("add_to_series") = << >> /\ CallsOf("create_series") = << >>

\* C1 witness: a sorted batch with a new-series intent, one file failed and one
\* registered, has returned Ok.
C1_Witness ==
    /\ pc = "done" /\ outcome = "Ok" /\ AddRunning
    /\ opt.sorted /\ IsSome(opt.new_series)
    /\ AnyFailed /\ SomeValues(ids) # << >>

\* C2 as stated: with sorted=false and a series intent, a finished do_add has made
\* as many add_to_series calls as there are non-Failed outcomes, in input order.
C2_AsStated ==
    (pc = "done" /\ AddRunning /\ ~opt.sorted /\ HasIntent)
        => BoundIds = SomeValues(ids)

\* C2 amended: with sorted=false, the identifiers handed to add_to_series are at all
\* times a prefix, in input order, of the identifiers of the non-Failed outcomes, and
\* a do_add with a series intent that returns Ok has handed over all of them.
C2_BoundIsPrefixOfNonFailed ==
    (AddRunning /\ ~opt.sorted)
        => /\ IsPrefix(BoundIds, SomeValues(ids))
           /\ (pc = "done" /\ outcome = "Ok" /\ HasIntent) => BoundIds = SomeValues(ids)

\* C2 witness: an unsorted batch of two with a series intent returned Ok; the first
\* file failed and the second file's identifier is the only one bound.
C2_Witness ==
    /\ pc = "done" /\ outcome = "Ok" /\ AddRunning
    /\ ~opt.sorted /\ HasIntent
    /\ Len(ids) = 2 /\ IsNone(ids[1]) /\ IsSome(ids[2])
    /\ BoundIds = <<ids[2][1]>>

\* C3 as stated: under sorted=true the i-th add_to_series call (i from 0 over the
\* filtered identifiers) passes Some(i) as its position; under sorted=false it passes
\* no position and use-default-order = true.
C3_AsStated ==
    AddRunning =>
        \A j \in 1..Len(CallsOf("add_to_series")) :
            LET c == CallsOf("add_to_series")[j]
            IN  IF opt.sorted
                THEN c.args[3] = Some(j - 1)
                ELSE c.args[3] = None /\ c.args[4] = TRUE

\* the paths handed to add_media, in call order
AddMediaPaths == [j \in 1..Len(CallsOf("add_media")) |-> CallsOf("add_media")[j].args[1]]

\* C4: do_add calls add_media exactly once per file, in input order, whatever the
\* earlier files' results were; the k-th outcome is the k-th file's (a recovered or new
\* identifier names a record with that file's content hash); and once ingestion is
\* over there are exactly as many outcomes as files.
C4_OneOutcomePerFile ==
    AddRunning =>
        /\ Len(ids) <= Len(files)
        /\ AddMediaPaths = SubSeq(files, 1, Len(ids))
        /\ \A k \in 1..Len(ids) :
             IsSome(ids[k]) => /\ ids[k][1] \in 1..Len(media)
                               /\ media[ids[k][1]].hash = FileHash(files[k])
        /\ pc \notin {"add_resolve", "add_ingest"} => Len(ids) = Len(files)

\* C4 witness: the first file of a batch of two failed and the second was still
\* handed to add_media and registered.
C4_Witness ==
    /\ pc = "done" /\ AddRunning
    /\ Len(files) = 2 /\ Len(ids) = 2
    /\ IsNone(ids[1]) /\ IsSome(ids[2])
    /\ Len(CallsOf("add_media")) = 2 /\ CallsOf("add_media")[2].ok

\* the add_media and query_media calls of the ingestion, in call order
IngestLog == SelectSeq(calls, LAMBDA c : c.op \in {"add_media", "query_media"})
\* the file (1-based) that the j-th entry of IngestLog belongs to
FileOf(j) == Len(SelectSeq(SubSeq(IngestLog, 1, j), LAMBDA c : c.op = "add_media"))

\* C5: an add_media that fails with AlreadyExists(hash) is followed by one query for
\* that hash; a query that finds exactly one match makes the file's outcome the
\* identifier of that stored media, a query that fails makes it Failed; any other
\* add_media error makes the outcome Failed without a query.
C5_AlreadyExistsRecovery ==
    AddRunning =>
        \A j \in 1..Len(IngestLog) :
            LET c == IngestLog[j]
                k == FileOf(j)
            IN  c.op = "add_media" =>
                  /\ k <= Len(ids)
                  /\ c.ret.kind = "AlreadyExists" =>
                       /\ j < Len(IngestLog)
                       /\ IngestLog[j + 1].op = "query_media"
                       /\ IngestLog[j + 1].args = <<c.ret.hash>>
                       /\ (IngestLog[j + 1].ok /\ Len(IngestLog[j + 1].ret) = 1) =>
                             /\ ids[k] = Some(IngestLog[j + 1].ret[1])
                             /\ media[ids[k][1]].hash = c.ret.hash
                       /\ ~IngestLog[j + 1].ok => ids[k] = None
                  /\ c.ret.kind = "Other" =>
                       /\ ids[k] = None
                       /\ j < Len(IngestLog) => IngestLog[j + 1].op = "add_media"

\* C5 witness: one batch in which a duplicate was recovered through the query and
\* another duplicate was lost because the query failed.
C5_Witness ==
    /\ pc = "done" /\ AddRunning /\ Len(ids) = 2
    /\ Len(IngestLog) = 4
    /\ IngestLog[1].ret.kind = "AlreadyExists" /\ IngestLog[2].ok /\ IsSome(ids[1])
    /\ IngestLog[3].ret.kind = "AlreadyExists" /\ ~IngestLog[4].ok /\ IsNone(ids[2])

\* the path a manifest line names: the URI path of a file:// line, else the line
NamedPath(v) ==
    IF Len(v) >= SchemeLen /\ SubSeq(v, 1, SchemeLen) = FileScheme
    THEN PercentEncode(FromFirstSlash(SubSeq(v, SchemeLen + 1, Len(v))))
    ELSE v
\* the files an add invocation refers to: its arguments, or its manifest's lines
Referenced ==
    IF IsSome(opt.input)
    THEN {NamedPath(Unwrap(opt.input)[j]) : j \in 1..Len(Unwrap(opt.input))}
    ELSE {opt.file[j] : j \in 1..Len(opt.file)}

\* C6: when a file the add invocation refers to (an argument or a manifest line) is
\* not a regular file, the invocation never gets past resolution: it makes no engine
\* call at all and ends in failure.
C6_MissingFileNoEngineCalls ==
    (AddRunning /\ \E p \in Referenced : ~(p \in ExistingFiles))
        => /\ calls = << >>
           /\ pc \in {"add_resolve", "done"}
           /\ pc = "done" => outcome \notin {"none", "Ok"}

\* C6 witness: a manifest naming one existing and one missing file was rejected.
C6_Witness ==
    /\ pc = "done" /\ AddRunning /\ IsSome(opt.input)
    /\ outcome = "Err:missing"
    /\ \E p \in Referenced : p \in ExistingFiles
    /\ \E p \in Referenced : ~(p \in ExistingFiles)

RECURSIVE NamedPaths(_)
\* the paths of a manifest's non-empty lines, in line order
NamedPaths(ls) ==
    IF ls = << >> THEN << >>
    ELSE IF Head(ls) = << >> THEN NamedPaths(Tail(ls))
    ELSE <<NamedPath(Head(ls))>> \o NamedPaths(Tail(ls))

\* C7 as stated: in manifest mode, a manifest that could be read resolves to the
\* paths of its non-empty lines, in line order (a file:// line gives its URI path,
\* any other line, however short, gives itself); empty lines add nothing and make
\* nothing fail, so resolution fails only when one of those paths is no file.
C7_AsStated ==
    (AddRunning /\ IsSome(opt.input) /\ pc # "add_resolve" /\ outcome # "Err:read")
        => LET want == NamedPaths(Unwrap(opt.input))
           IN  IF \A j \in 1..Len(want) : want[j] \in ExistingFiles
               THEN files = want /\ outcome \notin {"Panic", "Err:missing"}
               ELSE outcome = "Err:missing"

InfoRunning == IsSome(query)
HasOuterSpace(q) == q # << >> /\ (Head(q) = " " \/ q[Len(q)] = " ")
\* the identifier a text denotes: decimal digits, as the engine prints identifiers
DenotesId(t, id) ==
    /\ t # << >>
    /\ \A j \in 1..Len(t) : t[j] \in {"0", "1", "2", "3", "4", "5", "6", "7", "8", "9"}
    /\ DecimalValue(t, 0) = id

\* C8: when the query string parses as an identifier and the engine holds a record
\* with that identifier, the lookup returns exactly that record, and neither
\* query_media nor get_media_by_filename is called, even when another record's
\* filename equals the query string.
C8_IdentifierWins ==
    (InfoRunning /\ pc \in {"info_hash", "info_file", "info_print", "done"})
        => \A id \in 1..Len(media) :
             DenotesId(Unwrap(query), id)
                => /\ found = <<[id |-> id, hash |-> media[id].hash,
                                 filename |-> media[id].filename]>>
                   /\ pc \in {"info_print", "done"}
                   /\ CallsOf("query_media") = << >>
                   /\ CallsOf("get_media_by_filename") = << >>

\* C8 witness: the query "1" returned record 1 while record 2 has the filename "1".
C8_Witness ==
    /\ pc = "done" /\ outcome = "Ok"
    /\ query = Some(<<"1">>)
    /\ Len(media) = 2 /\ media[2].filename = <<"1">>
    /\ Len(found) = 1 /\ found[1].id = 1

\* C9 as stated: a query that is an existing identifier's decimal text with
\* whitespace before or after it returns, when the lookup returns at all, that
\* identifier's record, as the query without the whitespace does.
C9_AsStated ==
    (InfoRunning /\ pc = "done" /\ outcome = "Ok" /\ HasOuterSpace(Unwrap(query)))
        => \A id \in 1..Len(media) :
             DenotesId(Trim(Unwrap(query)), id)
                => found = <<[id |-> id, hash |-> media[id].hash,
                              filename |-> media[id].filename]>>

\* the records whose filename is n, by ascending identifier
WithFilename(n) ==
    LET hit == SelectSeq([id \in 1..Len(media) |-> id], LAMBDA id : media[id].filename = n)
    IN  [j \in 1..Len(hit) |-> [id |-> hit[j], hash |-> media[hit[j]].hash,
                                filename |-> media[hit[j]].filename]]

\* C10 as stated: when neither the identifier attempt nor the hash attempt yields a
\* record (also when the trimmed query has hash length and no stored hash equals
\* it), the lookup ends with the filename attempt: get_media_by_filename is called
\* with the trimmed query, and when it answers the result is the media of that
\* filename in the order it returned them.
C10_AsStated ==
    (InfoRunning /\ pc = "done"
       /\ ~(\E id \in 1..Len(media) : DenotesId(Unwrap(query), id))
       /\ ~(\E id \in 1..Len(media) : media[id].hash = Trim(Unwrap(query))))
        => /\ outcome = "Ok"
           /\ Len(CallsOf("get_media_by_filename")) = 1
           /\ CallsOf("get_media_by_filename")[1].args = <<Trim(Unwrap(query))>>
           /\ CallsOf("get_media_by_filename")[1].ok => found = WithFilename(Trim(Unwrap(query)))

\* C11 as stated: a query that matches no identifier, no stored hash and no
\* filename ends the lookup with an empty result; do_info returns Ok and reports the
\* miss with the query string as it was typed, untrimmed.
C11_AsStated ==
    (InfoRunning /\ pc = "done"
       /\ ~(\E id \in 1..Len(media) : DenotesId(Trim(Unwrap(query)), id))
       /\ ~(\E id \in 1..Len(media) : media[id].hash = Trim(Unwrap(query)))
       /\ ~(\E id \in 1..Len(media) : media[id].filename = Trim(Unwrap(query))))
        => /\ outcome = "Ok"
           /\ found = << >>
           /\ shown = Some(Unwrap(query))

\* the calls and prompts of the series resolution, in order
SeriesLog == SelectSeq(calls, LAMBDA c : c.op \in {"get_series_by_name", "prompt", "create_series"})
\* the series the engine held while the new name was being settled
SeriesBefore ==
    IF \E j \in 1..Len(calls) : calls[j].op = "create_series" /\ calls[j].ok
    THEN SubSeq(series, 1, Len(series) - 1)
    ELSE series
InUse(n) == \E u \in 1..Len(SeriesBefore) : SeriesBefore[u] = n

\* C12: with a new-series intent do_add calls create_series at most once and never
\* with a name in use: the given name is looked up first and, when unused, created
\* without a prompt; when it is in use the user is prompted, every answer that is in
\* use is rejected (another prompt or the end of the invocation follows, never a
\* create), and the name created is the first answer that is not in use.
C12_CreateOnlyUnusedName ==
    (AddRunning /\ IsSome(opt.new_series)) =>
        LET n0 == opt.new_series[1]
            L == SeriesLog
        IN  /\ Len(SelectSeq(calls, LAMBDA c : c.op = "create_series")) <= 1
            /\ L # << >> => /\ L[1].op = "get_series_by_name"
                           /\ L[1].args = <<n0>>
                           /\ L[1].ok = InUse(n0)
            /\ \A j \in 1..Len(L) :
                 /\ L[j].op = "create_series" =>
                      /\ j = Len(L)
                      /\ ~InUse(L[j].args[1])
                      /\ L[j - 1].op = "get_series_by_name"
                      /\ L[j - 1].args = L[j].args
                      /\ IF j = 2 THEN L[j].args = <<n0>>
                         ELSE L[j - 2].op = "prompt" /\ L[j - 2].args = L[j].args
                 /\ L[j].op = "prompt" =>
                      /\ InUse(n0)
                      /\ j < Len(L)
                      /\ L[j + 1].op = "get_series_by_name"
                      /\ L[j + 1].args = L[j].args
                      /\ L[j + 1].ok = InUse(L[j].args[1])
                      /\ InUse(L[j].args[1]) =>
                           (j + 1 = Len(L) \/ L[j + 2].op = "prompt")
                      /\ ~InUse(L[j].args[1]) =>
                           (j + 2 = Len(L) /\ L[j + 2].op = "create_series")
                 /\ (L[j].op = "get_series_by_name" /\ j = 1 /\ ~L[j].ok) =>
                      (Len(L) = 2 /\ L[2].op = "create_series")

\* C12 witness: the given name was in use, the first answer was in use too and was
\* rejected, the second answer was free and is the name created.
C12_Witness ==
    /\ pc = "done" /\ outcome = "Ok" /\ AddRunning /\ IsSome(opt.new_series)
    /\ Len(SeriesLog) = 6
    /\ SeriesLog[1].ok
    /\ SeriesLog[2].op = "prompt" /\ SeriesLog[3].ok
    /\ SeriesLog[4].op = "prompt" /\ ~SeriesLog[5].ok
    /\ SeriesLog[6].op = "create_series" /\ SeriesLog[6].ok
    /\ SeriesLog[6].args = SeriesLog[4].args
    /\ series[Len(series)] = SeriesLog[4].args[1]

\* C13: every add_media call of do_add receives the title and the comment of the
\* command line when the resolved batch has exactly one file, and an absent title
\* and an absent comment when the batch has two or more files.
C13_TextsOnlyForSingleFile ==
    AddRunning =>
        \A j \in 1..Len(calls) :
            calls[j].op = "add_media" =>
                IF Len(files) = 1
                THEN calls[j].args[2] = opt.title /\ calls[j].args[3] = opt.comment
                ELSE calls[j].args[2] = << >> /\ calls[j].args[3] = << >>

\* C13 witness: a batch of two files with a title and a comment on the command
\* line; both add_media calls were made without them.
C13_Witness ==
    /\ pc = "done" /\ AddRunning
    /\ Len(files) = 2 /\ opt.title # << >> /\ opt.comment # << >>
    /\ Len(SelectSeq(calls, LAMBDA c : c.op = "add_media")) = 2
    /\ \A j \in 1..Len(calls) :
         calls[j].op = "add_media" => calls[j].args[2] = << >> /\ calls[j].args[3] = << >>

\* the engine calls of the series binding
SeriesOps == {"get_series_by_name", "create_series", "add_to_series"}

\* C14: the add_media calls of do_add are made in input order and all of them are
\* made before the first get_series_by_name, create_series or add_to_series call:
\* no add_media call follows a series call, a series call is made only when every
\* file has had its add_media call, and without a series intent no series call is
\* made at all.
C14_IngestBeforeSeries ==
    AddRunning =>
        LET adds == SelectSeq(calls, LAMBDA c : c.op = "add_media")
        IN  /\ Len(adds) <= Len(files)
            /\ \A j \in 1..Len(adds) : adds[j].args[1] = files[j]
            /\ \A j \in 1..Len(calls) :
                 calls[j].op \in SeriesOps =>
                     /\ \A k \in (j + 1)..Len(calls) : calls[k].op # "add_media"
                     /\ Len(SelectSeq(SubSeq(calls, 1, j), LAMBDA c : c.op = "add_media"))
                            = Len(files)
            /\ (opt.series = << >> /\ opt.new_series = << >>) =>
                 \A j \in 1..Len(calls) : calls[j].op \notin SeriesOps

\* C14 witness: two files were ingested and then bound, the two add_media calls
\* first and the series calls after them.
C14_Witness ==
    /\ pc = "done" /\ outcome = "Ok" /\ AddRunning
    /\ Len(files) = 2 /\ files[1] # files[2]
    /\ opt.new_series # << >>
    /\ Len(calls) = 6
    /\ calls[1].op = "add_media" /\ calls[2].op = "add_media"
    /\ calls[3].op = "get_series_by_name" /\ calls[4].op = "create_series"
    /\ calls[5].op = "add_to_series" /\ calls[6].op = "add_to_series"

\* C15: when add_to_series returns an error for the k-th retained identifier, do_add
\* makes no further call and returns that error; the k-1 identifiers before it were
\* accepted by the engine and stay bound, in input order, and a series created by
\* this invocation is still in the engine.
C15_FailedBindStops ==
    AddRunning =>
        \A j \in 1..Len(calls) :
            (calls[j].op = "add_to_series" /\ ~calls[j].ok) =>
                LET binds == SelectSeq(calls, LAMBDA c : c.op = "add_to_series")
                    k == Len(binds)
                    wanted == SomeValues(ids)
                IN  /\ j = Len(calls)
                    /\ pc = "done" /\ outcome = "Err:add_to_series"
                    /\ k <= Len(wanted)
                    /\ \A i \in 1..(k - 1) : binds[i].ok
                    /\ \A i \in 1..k : binds[i].args[1] = wanted[i] /\ binds[i].args[2] = target[1]
                    /\ bound = [i \in 1..(k - 1) |-> <<target[1], wanted[i]>>]
                    /\ \A c \in 1..Len(calls) :
                         (calls[c].op = "create_series" /\ calls[c].ok) =>
                             /\ calls[c].ret = target[1]
                             /\ target[1] \in 1..Len(series)
                             /\ series[target[1]] = calls[c].args[1]

\* C15 witness: a series was created, the first identifier was bound to it, the
\* second add_to_series call failed and ended the invocation with one of two bound.
C15_Witness ==
    /\ pc = "done" /\ outcome = "Err:add_to_series" /\ AddRunning
    /\ \E c \in 1..Len(calls) : calls[c].op = "create_series" /\ calls[c].ok
    /\ Len(SomeValues(ids)) = 2
    /\ Len(SelectSeq(calls, LAMBDA c : c.op = "add_to_series")) = 2
    /\ Len(bound) = 1
    /\ ~calls[Len(calls)].ok

====
